---- MODULE Spec2Model ----
(***************************************************************************)
(* SLR backend: the papers API (api/papers/routes.py), the store fetcher   *)
(* and formatter (services/papers/data_service.py) and the facet           *)
(* extractor / filter (services/papers/filter_service.py).                 *)
(*                                                                         *)
(* Text is modelled as a sequence of one-character strings, so that the    *)
(* regular expressions and the substring tests of the code are computed    *)
(* character by character.                                                 *)
(***************************************************************************)
EXTENDS Integers, Sequences, FiniteSets, TLC

VARIABLES
    store,       \* rows of table ibd_rcts, in the order the listing query returns them
    storeMode,   \* "up" | "connect_fail" | "query_fail": how the store answers now
    openConns,   \* connections opened by a fetch call and not closed
    response,    \* the response to the last HTTP request
    df,          \* FilterService input: the frame handed to apply_filters
    selection,   \* FilterService input: the filters mapping
    shape,       \* how the blob of df was written (key, value, quotes, whitespace)
    result,      \* apply_filters(df, selection)
    result2,     \* apply_filters(result, selection)
    options,     \* get_filter_options(df)
    pc,          \* position of the FilterService call sequence
    abstract,    \* DataService input: a raw abstract
    summary,     \* _truncate_abstract(abstract)
    raw_auth,    \* DataService input: a raw authorship string
    authors      \* _parse_authors(raw_auth)

vars == << store, storeMode, openConns, response, df, selection, shape,
           result, result2, options, pc, abstract, summary, raw_auth, authors >>

----------------------------------------------------------------------------
(* Bounds of the model.                                                    *)

MaxRows == 2
MaxLabels == 2
MaxWs == 2
MaxPieces == 5
MaxPage == 3
MaxOpen == 2

----------------------------------------------------------------------------
(* Text primitives.                                                        *)

\* The ['\"] class with the double quotation mark left out.
QuotesSingleOnly == {"'"}

\* The characters of a regular expression's ['\"] class.
Quotes == {"'", "\""}

\* Characters matched by \s (a sample of them) and split on by str.split().
Whitespace == {" ", "\n"}

\* Whether the literal lit stands in s at position i (1-based).
HasLiteralAt(lit, s, i) ==
    /\ i >= 1
    /\ i + Len(lit) - 1 <= Len(s)
    /\ \A k \in 1..Len(lit) : s[i + k - 1] = lit[k]

\* Python's `sub in s` on strings.
Contains(sub, s) ==
    \E i \in 1..(Len(s) + 1) : HasLiteralAt(sub, s, i)

IsQuoteAt(s, i) == i >= 1 /\ i <= Len(s) /\ s[i] \in Quotes

\* re.match of  ['\"]KEY['\"]:\s*['\"]VAL['\"]  at position i of s.
PatternMatchesAt(key, val, s, i) ==
    LET colon == i + 1 + Len(key) + 1
    IN  /\ IsQuoteAt(s, i)
        /\ HasLiteralAt(key, s, i + 1)
        /\ IsQuoteAt(s, colon - 1)
        /\ colon <= Len(s)
        /\ s[colon] = ":"
        /\ \E w \in 0..(Len(s) - colon) :
              /\ \A k \in (colon + 1)..(colon + w) : s[k] \in Whitespace
              /\ IsQuoteAt(s, colon + w + 1)
              /\ HasLiteralAt(val, s, colon + w + 2)
              /\ IsQuoteAt(s, colon + w + 2 + Len(val))

\* re.search(r"['\"]KEY['\"]:\s*['\"]VAL['\"]", s) is not None.
re_search(key, val, s) ==
    \E i \in 1..Len(s) : PatternMatchesAt(key, val, s, i)

kCode == <<"c", "o", "d", "e">>
kGroup == <<"g", "r", "o", "u", "p">>

\* str(None)
strNone == <<"N", "o", "n", "e">>

----------------------------------------------------------------------------
(* FilterService: the pattern tables.                                      *)

\* _extract_study_types: the pattern table, << code literal, display label >>.
StudyTypePatterns ==
    << 
       << <<"R", "C", "T">>,
          <<"R", "a", "n", "d", "o", "m", "i", "z", "e", "d", " ", "C", "o", "n", "t", "r", "o", "l", "l", "e", "d", " ", "T", "r", "i", "a", "l", " ", "(", "R", "C", "T", ")">> >>,
       << <<"C", "R">>,
          <<"C", "a", "s", "e", " ", "R", "e", "p", "o", "r", "t", " ", "(", "C", "R", ")">> >>,
       << <<"C", "S">>,
          <<"C", "a", "s", "e", " ", "S", "e", "r", "i", "e", "s", " ", "(", "C", "S", ")">> >>,
       << <<"X", "S">>,
          <<"C", "r", "o", "s", "s", "-", "S", "e", "c", "t", "i", "o", "n", "a", "l", " ", "S", "t", "u", "d", "y", " ", "(", "X", "S", ")">> >>,
       << <<"C", "C", "S">>,
          <<"C", "a", "s", "e", "-", "C", "o", "n", "t", "r", "o", "l", " ", "S", "t", "u", "d", "y", " ", "(", "C", "C", "S", ")">> >>,
       << <<"C", "O", "H">>,
          <<"C", "o", "h", "o", "r", "t", " ", "S", "t", "u", "d", "y", " ", "(", "C", "O", "H", ")">> >>,
       << <<"S", "R">>,
          <<"S", "y", "s", "t", "e", "m", "a", "t", "i", "c", " ", "R", "e", "v", "i", "e", "w", " ", "(", "S", "R", ")">> >>,
       << <<"M", "A">>,
          <<"M", "e", "t", "a", "-", "A", "n", "a", "l", "y", "s", "i", "s", " ", "(", "M", "A", ")">> >>
    >>

\* _extract_phases: the pattern table, << code literal, display label >>.
PhasePatterns ==
    << 
       << <<"P", "1">>,
          <<"P", "h", "a", "s", "e", " ", "I", " ", "(", "P", "1", ")">> >>,
       << <<"P", "2">>,
          <<"P", "h", "a", "s", "e", " ", "I", "I", " ", "(", "P", "2", ")">> >>,
       << <<"P", "3">>,
          <<"P", "h", "a", "s", "e", " ", "I", "I", "I", " ", "(", "P", "3", ")">> >>,
       << <<"P", "4">>,
          <<"P", "h", "a", "s", "e", " ", "I", "V", " ", "(", "P", "4", ")">> >>
    >>

\* _extract_pharma_groups: the pattern table, << group literal, display label >>.
PharmaGroupPatterns ==
    << 
       << <<"M", "e", "d", "i", "c", "a", "l", " ", "A", "f", "f", "a", "i", "r", "s">>,
          <<"M", "e", "d", "i", "c", "a", "l", " ", "A", "f", "f", "a", "i", "r", "s">> >>,
       << <<"C", "o", "m", "m", "e", "r", "c", "i", "a", "l", "/", "M", "a", "r", "k", "e", "t", " ", "A", "c", "c", "e", "s", "s">>,
          <<"C", "o", "m", "m", "e", "r", "c", "i", "a", "l", "/", "M", "a", "r", "k", "e", "t", " ", "A", "c", "c", "e", "s", "s">> >>,
       << <<"P", "h", "a", "r", "m", "a", "c", "o", "v", "i", "g", "i", "l", "a", "n", "c", "e">>,
          <<"P", "h", "a", "r", "m", "a", "c", "o", "v", "i", "g", "i", "l", "a", "n", "c", "e">> >>,
       << <<"C", "l", "i", "n", "i", "c", "a", "l", " ", "D", "e", "v", "e", "l", "o", "p", "m", "e", "n", "t", " ", "/", " ", "R", "&", "D">>,
          <<"C", "l", "i", "n", "i", "c", "a", "l", " ", "D", "e", "v", "e", "l", "o", "p", "m", "e", "n", "t", " ", "/", " ", "R", "&", "D">> >>,
       << <<"R", "e", "g", "u", "l", "a", "t", "o", "r", "y", " ", "A", "f", "f", "a", "i", "r", "s">>,
          <<"R", "e", "g", "u", "l", "a", "t", "o", "r", "y", " ", "A", "f", "f", "a", "i", "r", "s">> >>,
       << <<"H", "E", "O", "R", " ", "(", "H", "e", "a", "l", "t", "h", " ", "E", "c", "o", "n", "o", "m", "i", "c", "s", ")">>,
          <<"H", "E", "O", "R", " ", "(", "H", "e", "a", "l", "t", "h", " ", "E", "c", "o", "n", "o", "m", "i", "c", "s", ")">> >>
    >>

\* _matches_study_types: << substring looked for in the selected label, code literal >>.
StudyTypeNeedles ==
    << 
       << <<"R", "C", "T">>,
          <<"R", "C", "T">> >>,
       << <<"C", "a", "s", "e", " ", "R", "e", "p", "o", "r", "t">>,
          <<"C", "R">> >>,
       << <<"C", "a", "s", "e", " ", "S", "e", "r", "i", "e", "s">>,
          <<"C", "S">> >>,
       << <<"C", "r", "o", "s", "s", "-", "S", "e", "c", "t", "i", "o", "n", "a", "l">>,
          <<"X", "S">> >>,
       << <<"C", "a", "s", "e", "-", "C", "o", "n", "t", "r", "o", "l">>,
          <<"C", "C", "S">> >>,
       << <<"C", "o", "h", "o", "r", "t">>,
          <<"C", "O", "H">> >>,
       << <<"S", "y", "s", "t", "e", "m", "a", "t", "i", "c", " ", "R", "e", "v", "i", "e", "w">>,
          <<"S", "R">> >>,
       << <<"M", "e", "t", "a", "-", "A", "n", "a", "l", "y", "s", "i", "s">>,
          <<"M", "A">> >>
    >>

\* _matches_phases: << substring looked for in the selected label, code literal >>.
PhaseNeedles ==
    << 
       << <<"P", "h", "a", "s", "e", " ", "I">>,
          <<"P", "1">> >>,
       << <<"P", "h", "a", "s", "e", " ", "I", "I">>,
          <<"P", "2">> >>,
       << <<"P", "h", "a", "s", "e", " ", "I", "I", "I">>,
          <<"P", "3">> >>,
       << <<"P", "h", "a", "s", "e", " ", "I", "V">>,
          <<"P", "4">> >>
    >>

AsciiOrder ==
    <<" ", "&", "(", ")", "-", "/", "1", "2", "3", "4", "A", "C", "D", "E", "H", "I", "M", "O", "P", "R", "S", "T", "V", "X", "a", "c", "d", "e", "f", "g", "h", "i", "k", "l", "m", "n", "o", "p", "r", "s", "t", "u", "v", "w", "y", "z">>

----------------------------------------------------------------------------
(* Frames. A DataFrame is a sequence of [idx, row]: idx is the row's index *)
(* label, its place in the sequence is its position. A row's output is     *)
(* <<>> for NULL and <<text>> for a string.                                *)

EmptyFrame == <<>>

\* The frame read_sql builds from rows: index labels 0..n-1 (a RangeIndex).
FrameOf(rows) == [i \in 1..Len(rows) |-> [idx |-> i - 1, row |-> rows[i]]]

\* str(row.get('output', ''))
OutputText(row) == IF row.output = <<>> THEN strNone ELSE row.output[1]

\* df.iloc[positions]: positional selection, IndexError when a position is
\* out of bounds. Positions are 0-based.
iloc(frame, positions) ==
    IF \E k \in 1..Len(positions) : positions[k] >= Len(frame)
    THEN [raised |-> TRUE, df |-> EmptyFrame]
    ELSE [raised |-> FALSE,
          df |-> [k \in 1..Len(positions) |-> frame[positions[k] + 1]]]

----------------------------------------------------------------------------
(* FilterService.                                                          *)

\* The labels of the table entries whose pattern is found in output, in
\* table order.
ExtractWith(table, key, output) ==
    LET hits == SelectSeq(table, LAMBDA e : re_search(key, e[1], output))
    IN  [k \in 1..Len(hits) |-> hits[k][2]]

_extract_study_types(output) == ExtractWith(StudyTypePatterns, kCode, output)

_extract_phases(output) == ExtractWith(PhasePatterns, kCode, output)

_extract_pharma_groups(output) == ExtractWith(PharmaGroupPatterns, kGroup, output)

Range(s) == {s[k] : k \in 1..Len(s)}

\* Python's < on the characters the labels are written in.
Ord(c) == CHOOSE k \in 1..Len(AsciiOrder) : AsciiOrder[k] = c

\* Python's < on strings.
LexLess(a, b) ==
    \E k \in 1..(Len(b)) :
        /\ \A j \in 1..(k - 1) : j <= Len(a) /\ a[j] = b[j]
        /\ \/ k = Len(a) + 1
           \/ k <= Len(a) /\ Ord(a[k]) < Ord(b[k])

\* sorted(list(S))
RECURSIVE sorted(_)
sorted(S) ==
    IF S = {} THEN <<>>
    ELSE LET least == CHOOSE x \in S : \A y \in S \ {x} : LexLess(x, y)
         IN  <<least>> \o sorted(S \ {least})

\* Every non-empty frame comes from a query that selects the output column,
\* so `'output' not in df.columns` is false whenever df.empty is.
get_filter_options(frame) ==
    IF frame = EmptyFrame
    THEN [study_types |-> <<>>, phases |-> <<>>, pharma_groups |-> <<>>]
    ELSE LET texts == {OutputText(frame[k].row) : k \in 1..Len(frame)} \ {<<>>}
         IN  [study_types |->
                  sorted(UNION {Range(_extract_study_types(o)) : o \in texts}),
              phases |->
                  sorted(UNION {Range(_extract_phases(o)) : o \in texts}),
              pharma_groups |->
                  sorted(UNION {Range(_extract_pharma_groups(o)) : o \in texts})]

_matches_study_types(output, study_types) ==
    \E k \in 1..Len(study_types) : \E j \in 1..Len(StudyTypeNeedles) :
        /\ Contains(StudyTypeNeedles[j][1], study_types[k])
        /\ re_search(kCode, StudyTypeNeedles[j][2], output)

_matches_phases(output, phases) ==
    \E k \in 1..Len(phases) : \E j \in 1..Len(PhaseNeedles) :
        /\ Contains(PhaseNeedles[j][1], phases[k])
        /\ re_search(kCode, PhaseNeedles[j][2], output)

\* The pattern is built from re.escape(group): the label itself, literally.
_matches_pharma_groups(output, pharma_groups) ==
    \E k \in 1..Len(pharma_groups) :
        re_search(kGroup, pharma_groups[k], output)

\* filters.get(key): a missing key and an empty list are both falsy.
FiltersGet(filters, key) ==
    IF key \in DOMAIN filters THEN filters[key] ELSE <<>>

_matches_filters(output, filters) ==
    /\ FiltersGet(filters, "study_types") # <<>>
          => _matches_study_types(output, filters["study_types"])
    /\ FiltersGet(filters, "phases") # <<>>
          => _matches_phases(output, filters["phases"])
    /\ FiltersGet(filters, "pharma_groups") # <<>>
          => _matches_pharma_groups(output, filters["pharma_groups"])

\* `not filters`: true of the empty dict only.
NotFilters(filters) == DOMAIN filters = {}

\* filtered_indices: the index labels of the rows that pass.
filtered_indices(frame, filters) ==
    LET kept == SelectSeq(frame, LAMBDA e :
                    /\ OutputText(e.row) # <<>>
                    /\ _matches_filters(OutputText(e.row), filters))
    IN  [k \in 1..Len(kept) |-> kept[k].idx]

apply_filters(frame, filters) ==
    IF frame = EmptyFrame \/ NotFilters(filters)
    THEN [raised |-> FALSE, df |-> frame]
    ELSE LET indices == filtered_indices(frame, filters)
         IN  IF indices # <<>> THEN iloc(frame, indices)
             ELSE [raised |-> FALSE, df |-> EmptyFrame]

----------------------------------------------------------------------------
(* Sample rows of table ibd_rcts, newest publication_year first.           *)

PaperRows ==
    <<
       [work_id |-> "W1", publication_year |-> 2024,
        abstract |->
          <<"A", "i", "m", ".", " ", "M", "e", "t", "h", "o", "d", ".", " ", "R", "e", "s", "u", "l", "t", ".", " ", "M", "o", "r", "e", ".", " ", "E", "n", "d", ".">>,
        output |->
          <<>>],
       [work_id |-> "W2", publication_year |-> 2023,
        abstract |->
          <<"<", "p", ">", "O", "n", "e", ".", " ", " ", "T", "w", "o", "!", "<", "/", "p", ">">>,
        output |->
          << <<>> >>],
       [work_id |-> "W3", publication_year |-> 2022,
        abstract |->
          <<"A", "?", " ", "B", ".", " ", "C", ".", " ", "D">>,
        output |->
          << <<"[", "{", "'", "c", "o", "d", "e", "'", ":", " ", "'", "R", "C", "T", "'", "}", ",", " ", "{", "'", "c", "o", "d", "e", "'", ":", " ", "'", "P", "1", "'", "}", "]">> >>],
       [work_id |-> "W4", publication_year |-> 2021,
        abstract |->
          <<"S", "h", "o", "r", "t">>,
        output |->
          << <<"{", "\"", "c", "o", "d", "e", "\"", ":", " ", "\"", "P", "2", "\"", ",", " ", "\"", "g", "r", "o", "u", "p", "\"", ":", " ", "\"", "M", "e", "d", "i", "c", "a", "l", " ", "A", "f", "f", "a", "i", "r", "s", "\"", "}">> >>],
       [work_id |-> "W5", publication_year |-> 2020,
        abstract |->
          <<"x", ".", " ", "y">>,
        output |->
          << <<"{", "'", "c", "o", "d", "e", "'", ":", "'", "C", "C", "S", "'", ",", " ", "'", "g", "r", "o", "u", "p", "'", ":", " ", " ", "'", "H", "E", "O", "R", " ", "(", "H", "e", "a", "l", "t", "h", " ", "E", "c", "o", "n", "o", "m", "i", "c", "s", ")", "'", "}">> >>]
    >>

PaperSet == {PaperRows[k] : k \in 1..Len(PaperRows)}

\* The sequences of at most n distinct sample rows.
RowSeqs(n) ==
    UNION {{s \in [1..m -> PaperSet] : \A i, j \in 1..m : s[i] = s[j] => i = j}
           : m \in 0..n}

Categories == {"study_types", "phases", "pharma_groups"}

\* The display labels of a pattern table.
Labels(table) == {table[k][2] : k \in 1..Len(table)}

Vocabulary(category) ==
    CASE category = "study_types" -> Labels(StudyTypePatterns)
      [] category = "phases" -> Labels(PhasePatterns)
      [] category = "pharma_groups" -> Labels(PharmaGroupPatterns)

\* The filters dict whose keys are the categories given a list: each argument
\* is <<>> (key absent) or <<list>>.
MakeFilters(st, ph, pg) ==
    LET given == [study_types |-> st, phases |-> ph, pharma_groups |-> pg]
    IN  [c \in {k \in Categories : given[k] # <<>>} |-> given[c][1]]

\* The selections with at most n labels in all: every category is absent, an
\* empty list, or a list of labels of its vocabulary.
ListChoices(category, len) ==
    IF len = 0 THEN {<<>>, << <<>> >>}
    ELSE {<<l>> : l \in [1..len -> Vocabulary(category)]}

Selections(n) ==
    UNION {{MakeFilters(st, ph, pg) :
                st \in ListChoices("study_types", lens[1]),
                ph \in ListChoices("phases", lens[2]),
                pg \in ListChoices("pharma_groups", lens[3])}
           : lens \in {l \in [1..3 -> 0..n] : l[1] + l[2] + l[3] <= n}}

NoShape == [key |-> <<>>, val |-> <<>>, label |-> <<>>, category |-> "",
            quotes |-> <<>>, before |-> <<>>, after |-> <<>>]
Unset == <<>>

\* The variables a specification does not use keep these values.
IdleService ==
    /\ store = <<>>
    /\ storeMode = "up"
    /\ openConns = 0
    /\ response = Unset
IdleFilter ==
    /\ df = EmptyFrame
    /\ selection = <<>>
    /\ shape = NoShape
    /\ result = Unset
    /\ result2 = Unset
    /\ options = Unset
    /\ pc = "idle"
IdleFormatter ==
    /\ abstract = <<>>
    /\ summary = Unset
    /\ raw_auth = <<>>
    /\ authors = Unset

serviceVars == << store, storeMode, openConns, response >>
filterVars == << df, selection, shape, result, result2, options, pc >>
formatterVars == << abstract, summary, raw_auth, authors >>

----------------------------------------------------------------------------
(* DataService: the formatter.                                             *)

\* re.sub(r'<[^>]*>', '', text): a '<' with a '>' somewhere after it is
\* removed together with everything up to the first such '>'.
RECURSIVE StripTags(_)
StripTags(text) ==
    IF text = <<>> THEN <<>>
    ELSE IF Head(text) = "<" /\ \E k \in 2..Len(text) : text[k] = ">"
         THEN LET close == CHOOSE k \in 2..Len(text) :
                               /\ text[k] = ">"
                               /\ \A j \in 2..(k - 1) : text[j] # ">"
              IN  StripTags(SubSeq(text, close + 1, Len(text)))
         ELSE <<Head(text)>> \o StripTags(Tail(text))

\* ' '.join(text.split()): runs of whitespace become one space, leading and
\* trailing whitespace is dropped.
RECURSIVE CollapseWhitespace(_)
CollapseWhitespace(text) ==
    IF text = <<>> THEN <<>>
    ELSE IF Head(text) \in Whitespace
         THEN IF \A k \in 1..Len(text) : text[k] \in Whitespace
              THEN <<>>
              ELSE LET rest == CollapseWhitespace(Tail(text))
                   IN  IF Head(Tail(text)) \in Whitespace THEN rest
                       ELSE <<" ">> \o rest
         ELSE <<Head(text)>> \o CollapseWhitespace(Tail(text))

\* str.strip() and the leading separator of the join: no space in front.
DropLeadingSpace(text) ==
    IF text # <<>> /\ Head(text) = " " THEN Tail(text) ELSE text

_clean_text(text) ==
    IF text = <<>> THEN <<>>
    ELSE DropLeadingSpace(CollapseWhitespace(StripTags(text)))

\* The characters of the look-behind class [.!?].
SentenceEnd == {".", "!", "?"}

\* re.split(r'(?<=[.!?]) +', text): text is cut at every run of spaces that
\* follows a character of [.!?]; the run is dropped.
RECURSIVE SplitFrom(_, _, _)
SplitFrom(text, start, i) ==
    IF i > Len(text) THEN <<SubSeq(text, start, Len(text))>>
    ELSE IF i > 1 /\ text[i] = " " /\ text[i - 1] \in SentenceEnd
         THEN LET after == CHOOSE k \in (i + 1)..(Len(text) + 1) :
                               /\ k = Len(text) + 1 \/ text[k] # " "
                               /\ \A j \in i..(k - 1) : text[j] = " "
              IN  <<SubSeq(text, start, i - 1)>> \o SplitFrom(text, after, after)
         ELSE SplitFrom(text, start, i + 1)

re_split_sentences(text) == SplitFrom(text, 1, 1)

\* ' '.join(parts)
RECURSIVE JoinWithSpace(_)
JoinWithSpace(parts) ==
    IF parts = <<>> THEN <<>>
    ELSE IF Len(parts) = 1 THEN parts[1]
         ELSE parts[1] \o <<" ">> \o JoinWithSpace(Tail(parts))

\* The number of sentences the list view keeps.
SummarySentences == 3

\* _truncate_abstract with `<` for `<=`: exactly 3 sentences get "...".
_truncate_abstract_strict(text) ==
    IF text = <<>> THEN <<>>
    ELSE LET clean_abstract == _clean_text(text)
             sentences == re_split_sentences(clean_abstract)
         IN  IF Len(sentences) < SummarySentences THEN <<clean_abstract>>
             ELSE <<JoinWithSpace(SubSeq(sentences, 1, SummarySentences))
                        \o <<".", ".", ".">> >>

\* None (<<>>) for an empty abstract, else <<text>>.
_truncate_abstract(text) ==
    IF text = <<>> THEN <<>>
    ELSE LET clean_abstract == _clean_text(text)
             sentences == re_split_sentences(clean_abstract)
         IN  IF Len(sentences) <= SummarySentences THEN <<clean_abstract>>
             ELSE <<JoinWithSpace(SubSeq(sentences, 1, SummarySentences))
                        \o <<".", ".", ".">> >>

\* raw_auth.split(';'): the pieces between the semicolons, empty ones kept.
RECURSIVE SplitOnSemicolon(_, _)
SplitOnSemicolon(text, start) ==
    LET found == {k \in start..Len(text) : text[k] = ";"}
    IN  IF found = {} THEN <<SubSeq(text, start, Len(text))>>
        ELSE LET i == CHOOSE k \in found : \A j \in found : k <= j
             IN  <<SubSeq(text, start, i - 1)>>
                     \o SplitOnSemicolon(text, i + 1)

\* name.strip()
RECURSIVE strip(_)
strip(name) ==
    IF name = <<>> THEN <<>>
    ELSE IF Head(name) \in Whitespace THEN strip(Tail(name))
    ELSE IF name[Len(name)] \in Whitespace
         THEN strip(SubSeq(name, 1, Len(name) - 1))
    ELSE name

\* ", ".join(authors)
RECURSIVE JoinWithComma(_)
JoinWithComma(names) ==
    IF names = <<>> THEN <<>>
    ELSE IF Len(names) = 1 THEN names[1]
         ELSE names[1] \o <<",", " ">> \o JoinWithComma(Tail(names))

\* The longest authors string returned whole, and the characters kept of a
\* longer one.
AuthorsLimit == 200
AuthorsKept == 197

\* The length limit that cuts at 200 and then appends "...".
LimitLengthLate(authors_str) ==
    IF Len(authors_str) > AuthorsLimit
    THEN SubSeq(authors_str, 1, AuthorsLimit) \o <<".", ".", ".">>
    ELSE authors_str

\* if len(authors_str) > 200: authors_str[:197] + "..."
LimitLength(authors_str) ==
    IF Len(authors_str) > AuthorsLimit
    THEN SubSeq(authors_str, 1, AuthorsKept) \o <<".", ".", ".">>
    ELSE authors_str

\* The authors string before the length limit.
authors_str_of(text) ==
    IF \E k \in 1..Len(text) : text[k] = ";"
    THEN LET parts == SplitOnSemicolon(text, 1)
             stripped == [k \in 1..Len(parts) |-> strip(parts[k])]
         IN  JoinWithComma(SelectSeq(stripped, LAMBDA name : name # <<>>))
    ELSE text

\* None (<<>>) for an empty string, else <<authors_str>>. raw_auth is a str:
\* nothing in the try block raises.
_parse_authors(text) ==
    IF text = <<>> THEN <<>>
    ELSE <<LimitLength(authors_str_of(text))>>

\* format_paper: the fields of the record that the sample rows carry.
format_paper(row, detail_view) ==
    IF detail_view
    THEN [work_id |-> row.work_id,
          publication_year |-> row.publication_year,
          abstract |-> <<_clean_text(row.abstract)>>,
          output |-> IF row.output = <<>> \/ row.output = << <<>> >>
                     THEN <<>> ELSE row.output]
    ELSE [work_id |-> row.work_id,
          publication_year |-> row.publication_year,
          abstract |-> _truncate_abstract(row.abstract)]

----------------------------------------------------------------------------
(* DataService: the fetcher. A fetch returns what the call returns and     *)
(* unclosed, the number of connections it opened and did not close.        *)

StoreModes == {"up", "connect_fail", "query_fail"}

\* get_all_papers without its try/except: a store failure is raised.
get_all_papers_unguarded(rows, mode) ==
    IF mode = "up"
    THEN [raised |-> FALSE, df |-> FrameOf(rows), unclosed |-> 0]
    ELSE [raised |-> TRUE, df |-> EmptyFrame,
          unclosed |-> IF mode = "query_fail" THEN 1 ELSE 0]

get_all_papers(rows, mode) ==
    CASE mode = "connect_fail" ->
            [raised |-> FALSE, df |-> EmptyFrame, unclosed |-> 0]
      [] mode = "query_fail" ->
            [raised |-> FALSE, df |-> EmptyFrame, unclosed |-> 1]
      [] mode = "up" ->
            [raised |-> FALSE, df |-> FrameOf(rows), unclosed |-> 0]

\* DataService.get_paper_by_id: row is <<>> for None, else <<df.iloc[0]>>.
fetch_paper_by_id(rows, mode, work_id) ==
    CASE mode = "connect_fail" -> [row |-> <<>>, unclosed |-> 0]
      [] mode = "query_fail" -> [row |-> <<>>, unclosed |-> 1]
      [] mode = "up" ->
            LET found == SelectSeq(rows, LAMBDA r : r.work_id = work_id)
            IN  [row |-> IF found # <<>> THEN <<found[1]>> ELSE <<>>,
                 unclosed |-> 0]

\* test_connection: connects and closes, runs no query.
test_connection(mode) ==
    IF mode = "connect_fail" THEN [is_connected |-> FALSE, unclosed |-> 0]
    ELSE [is_connected |-> TRUE, unclosed |-> 0]

----------------------------------------------------------------------------
(* The routes.                                                             *)

HTTPException(code) == [kind |-> "HTTPException", status_code |-> code]

\* The boundary without its `except HTTPException: raise` clause.
HandlerBoundaryCatchAll(exc) == 500

\* except HTTPException: raise / except Exception: raise HTTPException(500)
HandlerBoundary(exc) ==
    IF exc.kind = "HTTPException" THEN exc.status_code ELSE 500

\* math.ceil(total / limit) for total >= 0, limit >= 1.
Ceil(total, limit) == (total + limit - 1) \div limit

\* A slice that takes the row at end_idx too, as a label slice does.
iloc_slice_inclusive(frame, start_idx, end_idx) ==
    LET last == IF end_idx + 1 < Len(frame) THEN end_idx + 1 ELSE Len(frame)
    IN  IF start_idx >= last THEN EmptyFrame
        ELSE SubSeq(frame, start_idx + 1, last)

\* papers_df.iloc[start_idx:end_idx]: a slice stops at the end of the frame.
iloc_slice(frame, start_idx, end_idx) ==
    LET last == IF end_idx < Len(frame) THEN end_idx ELSE Len(frame)
    IN  IF start_idx >= last THEN EmptyFrame
        ELSE SubSeq(frame, start_idx + 1, last)

\* `filters_applied or {}`: filters_applied is <<>> (None) or <<dict>>.
OrEmptyDict(filters_applied) ==
    IF filters_applied = <<>> THEN <<>> ELSE filters_applied[1]

_create_paginated_response(papers_df, page, limit, filters_applied) ==
    IF papers_df = EmptyFrame
    THEN [data |-> <<>>,
          pagination |-> [page |-> page, limit |-> limit, total |-> 0,
                          total_pages |-> 0, has_next |-> FALSE,
                          has_previous |-> FALSE],
          filters_applied |-> OrEmptyDict(filters_applied)]
    ELSE LET total == Len(papers_df)
             total_pages == Ceil(total, limit)
             start_idx == (page - 1) * limit
             end_idx == start_idx + limit
             page_data == iloc_slice(papers_df, start_idx, end_idx)
         IN  [data |-> [k \in 1..Len(page_data) |->
                            format_paper(page_data[k].row, FALSE)],
              pagination |-> [page |-> page, limit |-> limit, total |-> total,
                              total_pages |-> total_pages,
                              has_next |-> page < total_pages,
                              has_previous |-> page > 1],
              filters_applied |-> OrEmptyDict(filters_applied)]

\* The response of a route: status 200 with a body, or an error status.
Ok(body) == [status |-> 200, body |-> <<body>>]
Failed(status) == [status |-> status, body |-> <<>>]

\* get_papers: GET /api/papers/
get_papers(fetch, page, limit) ==
    IF fetch.raised THEN Failed(500)
    ELSE Ok(_create_paginated_response(fetch.df, page, limit, <<>>))

\* The filters built without the truthiness test: every list field that is
\* not None, empty lists included.
PrepareFiltersKeepEmpty(request) ==
    [c \in {k \in Categories : request[k] # <<>>} |-> request[c][1]]

\* The filters filter_papers builds from the request: the list fields that
\* are neither None (<<>>) nor empty.
PrepareFilters(request) ==
    [c \in {k \in Categories : request[k] # <<>> /\ request[k][1] # <<>>}
        |-> request[c][1]]

\* filter_papers: POST /api/papers/filter
filter_papers(fetch, request) ==
    IF fetch.raised THEN Failed(HandlerBoundary(HTTPException(500)))
    ELSE LET filters == PrepareFilters(request)
             filtered_papers == apply_filters(fetch.df, filters)
         IN  IF filtered_papers.raised
             THEN Failed(HandlerBoundary([kind |-> "IndexError"]))
             ELSE Ok(_create_paginated_response(filtered_papers.df,
                         request.page, request.limit, <<filters>>))

\* The filters get_papers_count builds: the query lists that are truthy.
CountFilters(query) ==
    [c \in {k \in Categories : query[k] # <<>> /\ query[k][1] # <<>>}
        |-> query[c][1]]

\* get_papers_count: GET /api/papers/count
get_papers_count(fetch, query) ==
    IF fetch.raised THEN Failed(HandlerBoundary(HTTPException(500)))
    ELSE IF \A c \in Categories : query[c] = <<>> \/ query[c][1] = <<>>
         THEN Ok([total |-> Len(fetch.df)])
         ELSE LET filters == CountFilters(query)
                  filtered_papers == apply_filters(fetch.df, filters)
              IN  IF filtered_papers.raised
                  THEN Failed(HandlerBoundary([kind |-> "IndexError"]))
                  ELSE Ok([total |-> Len(filtered_papers.df),
                           filters_applied |-> filters])

\* get_filter_options: GET /api/papers/filter-options
filter_options_route(fetch) ==
    IF fetch.raised THEN Failed(HandlerBoundary(HTTPException(500)))
    ELSE Ok(get_filter_options(fetch.df))

\* get_paper_by_id: GET /api/papers/{work_id}
get_paper_by_id(fetch) ==
    IF fetch.row = <<>> THEN Failed(HandlerBoundary(HTTPException(404)))
    ELSE Ok(format_paper(fetch.row[1], TRUE))

\* health_check: GET /api/papers/health
health_check(probe) ==
    Ok([status |-> IF probe.is_connected THEN "healthy" ELSE "unhealthy"])

----------------------------------------------------------------------------
(* FilterService called directly: apply_filters on a frame as the Fetcher  *)
(* returns it, apply_filters again on its result, get_filter_options.      *)

InitFilter ==
    /\ IdleService
    /\ IdleFormatter
    /\ \E rows \in RowSeqs(MaxRows) : df = FrameOf(rows)
    /\ selection \in Selections(MaxLabels)
    /\ shape = NoShape
    /\ result = Unset
    /\ result2 = Unset
    /\ options = Unset
    /\ pc = "start"

ApplyFilters ==
    /\ pc = "start"
    /\ result' = <<apply_filters(df, selection)>>
    /\ pc' = "once"
    /\ UNCHANGED << df, selection, shape, result2, options >>
    /\ UNCHANGED << serviceVars, formatterVars >>

\* The second call happens only when the first returned.
ApplyFiltersAgain ==
    /\ pc = "once"
    /\ ~result[1].raised
    /\ result2' = <<apply_filters(result[1].df, selection)>>
    /\ pc' = "twice"
    /\ UNCHANGED << df, selection, shape, result, options >>
    /\ UNCHANGED << serviceVars, formatterVars >>

GetFilterOptions ==
    /\ pc \in {"start", "once", "twice"}
    /\ options = Unset
    /\ options' = <<get_filter_options(df)>>
    /\ UNCHANGED << df, selection, shape, result, result2, pc >>
    /\ UNCHANGED << serviceVars, formatterVars >>

NextFilter == ApplyFilters \/ ApplyFiltersAgain \/ GetFilterOptions

SpecFilter == InitFilter /\ [][NextFilter]_vars

----------------------------------------------------------------------------
(* The service: one request is handled at a time; its response is held in  *)
(* response until it is delivered.                                         *)

\* The stores: the sample rows that are in the table, in query order.
RECURSIVE SubRows(_, _)
SubRows(rows, keep) ==
    IF rows = <<>> THEN <<>>
    ELSE (IF Head(rows) \in keep THEN <<Head(rows)>> ELSE <<>>)
             \o SubRows(Tail(rows), keep)

Stores == {SubRows(PaperRows, keep) : keep \in SUBSET PaperSet}

Pages == 1..MaxPage
Limits == {1, 2, 100}

\* The label the sample requests select in a category.
SampleLabel(category) ==
    CASE category = "study_types" -> StudyTypePatterns[1][2]
      [] category = "phases" -> PhasePatterns[2][2]
      [] category = "pharma_groups" -> PharmaGroupPatterns[1][2]

\* A list field of a request: None, the empty list, or one label.
RequestLists(category) ==
    {<<>>, << <<>> >>, << <<SampleLabel(category)>> >>}

FilterRequests ==
    [study_types : RequestLists("study_types"),
     phases : RequestLists("phases"),
     pharma_groups : RequestLists("pharma_groups"),
     page : Pages, limit : Limits]

CountQueries ==
    [study_types : RequestLists("study_types"),
     phases : RequestLists("phases"),
     pharma_groups : RequestLists("pharma_groups")]

WorkIds == {PaperRows[k].work_id : k \in 1..Len(PaperRows)} \cup {"W0"}

Init ==
    /\ IdleFilter
    /\ IdleFormatter
    /\ store \in Stores
    /\ storeMode = "up"
    /\ openConns = 0
    /\ response = Unset

\* A request is taken when none is in flight; a fetch whose query fails is
\* taken only while the count of open connections is below its bound.
CanFetch ==
    /\ response = Unset
    /\ storeMode = "query_fail" => openConns < MaxOpen

\* A connection the call left unclosed stays open, unless the runtime
\* happened to finalize the connection object (reclaimed).
Leak(unclosed, reclaimed) ==
    openConns' = openConns + (IF reclaimed THEN 0 ELSE unclosed)

Respond(op, request, answer) ==
    response' = <<[op |-> op, request |-> request, mode |-> storeMode,
                   status |-> answer.status, body |-> answer.body]>>

GetPapers(page, limit, reclaimed) ==
    /\ CanFetch
    /\ LET fetch == get_all_papers(store, storeMode)
       IN  /\ Respond("papers", [page |-> page, limit |-> limit],
                      get_papers(fetch, page, limit))
           /\ Leak(fetch.unclosed, reclaimed)
    /\ UNCHANGED << store, storeMode, filterVars, formatterVars >>

FilterPapers(request, reclaimed) ==
    /\ CanFetch
    /\ LET fetch == get_all_papers(store, storeMode)
       IN  /\ Respond("filter", request, filter_papers(fetch, request))
           /\ Leak(fetch.unclosed, reclaimed)
    /\ UNCHANGED << store, storeMode, filterVars, formatterVars >>

GetPapersCount(query, reclaimed) ==
    /\ CanFetch
    /\ LET fetch == get_all_papers(store, storeMode)
       IN  /\ Respond("count", query, get_papers_count(fetch, query))
           /\ Leak(fetch.unclosed, reclaimed)
    /\ UNCHANGED << store, storeMode, filterVars, formatterVars >>

GetFilterOptionsRoute(reclaimed) ==
    /\ CanFetch
    /\ LET fetch == get_all_papers(store, storeMode)
       IN  /\ Respond("options", <<>>, filter_options_route(fetch))
           /\ Leak(fetch.unclosed, reclaimed)
    /\ UNCHANGED << store, storeMode, filterVars, formatterVars >>

GetPaperById(work_id, reclaimed) ==
    /\ CanFetch
    /\ LET fetch == fetch_paper_by_id(store, storeMode, work_id)
       IN  /\ Respond("detail", [work_id |-> work_id], get_paper_by_id(fetch))
           /\ Leak(fetch.unclosed, reclaimed)
    /\ UNCHANGED << store, storeMode, filterVars, formatterVars >>

HealthCheck ==
    /\ response = Unset
    /\ LET probe == test_connection(storeMode)
       IN  /\ Respond("health", <<>>, health_check(probe))
           /\ Leak(probe.unclosed, FALSE)
    /\ UNCHANGED << store, storeMode, filterVars, formatterVars >>

\* The response leaves the process.
Deliver ==
    /\ response # Unset
    /\ response' = Unset
    /\ UNCHANGED << store, storeMode, openConns, filterVars, formatterVars >>

\* The store starts or stops answering.
SetStoreMode(mode) ==
    /\ response = Unset
    /\ mode # storeMode
    /\ storeMode' = mode
    /\ UNCHANGED << store, openConns, response, filterVars, formatterVars >>

Next ==
    \/ \E page \in Pages, limit \in Limits, reclaimed \in BOOLEAN :
           GetPapers(page, limit, reclaimed)
    \/ \E request \in FilterRequests, reclaimed \in BOOLEAN :
           FilterPapers(request, reclaimed)
    \/ \E query \in CountQueries, reclaimed \in BOOLEAN :
           GetPapersCount(query, reclaimed)
    \/ \E reclaimed \in BOOLEAN : GetFilterOptionsRoute(reclaimed)
    \/ \E work_id \in WorkIds, reclaimed \in BOOLEAN :
           GetPaperById(work_id, reclaimed)
    \/ HealthCheck
    \/ Deliver
    \/ \E mode \in StoreModes : SetStoreMode(mode)

Spec == Init /\ [][Next]_vars

----------------------------------------------------------------------------
(* DataService formatting called directly on a raw abstract.               *)

\* The pieces raw abstracts are written from.
Pieces ==
    {<<"a">>, <<".">>, <<"?", " ">>, <<"!", "\n">>, <<" ">>, <<"<">>, <<">">>}

RECURSIVE Concat(_)
Concat(parts) ==
    IF parts = <<>> THEN <<>> ELSE Head(parts) \o Concat(Tail(parts))

\* The raw abstract is a text written from at most MaxPieces pieces.
InitFormat ==
    /\ IdleService
    /\ IdleFilter
    /\ \E m \in 0..MaxPieces : \E ps \in [1..m -> Pieces] :
           abstract = Concat(ps)
    /\ summary = Unset
    /\ raw_auth = <<>>
    /\ authors = Unset

TruncateAbstract ==
    /\ summary = Unset
    /\ summary' = <<_truncate_abstract(abstract)>>
    /\ UNCHANGED << abstract, raw_auth, authors, serviceVars, filterVars >>

NextFormat == TruncateAbstract

SpecFormat == InitFormat /\ [][NextFormat]_vars

----------------------------------------------------------------------------
(* DataService author parsing called directly on a raw authorship string.  *)

\* A name of 100 characters.
LongName == [k \in 1..100 |-> "n"]

\* The pieces raw authorship strings are written from.
AuthorPieces == {<<"A">>, <<" ">>, <<";">>, <<";", " ">>, LongName}

\* The raw string is a text written from at most MaxPieces pieces.
InitAuthors ==
    /\ IdleService
    /\ IdleFilter
    /\ abstract = <<>>
    /\ summary = Unset
    /\ \E m \in 0..MaxPieces : \E ps \in [1..m -> AuthorPieces] :
           raw_auth = Concat(ps)
    /\ authors = Unset

ParseAuthors ==
    /\ authors = Unset
    /\ authors' = <<_parse_authors(raw_auth)>>
    /\ UNCHANGED << abstract, summary, raw_auth, serviceVars, filterVars >>

NextAuthors == ParseAuthors

SpecAuthors == InitAuthors /\ [][NextAuthors]_vars

----------------------------------------------------------------------------
(* Claims about FilterService, checked under SpecFilter.                   *)

\* Whether row k of df is among the rows apply_filters returned.
RowKept(k) ==
    \E j \in 1..Len(result[1].df) : result[1].df[j] = df[k]

\* The labels the Facet Extractor derives from a blob, by category.
Extracted(category, output) ==
    CASE category = "study_types" -> Range(_extract_study_types(output))
      [] category = "phases" -> Range(_extract_phases(output))
      [] category = "pharma_groups" -> Range(_extract_pharma_groups(output))

FilterActive == \E c \in Categories : FiltersGet(selection, c) # <<>>

\* C1: with a selection of vocabulary labels, at least one list non-empty,
\* apply_filters keeps a row iff for every category with a non-empty list
\* one of the selected labels is among the labels the extractor derives
\* from the row's blob.
C1_FilterAgreesWithExtractor ==
    (pc # "start" /\ FilterActive) =>
        \A k \in 1..Len(df) :
            RowKept(k) <=>
                \A c \in Categories :
                    FiltersGet(selection, c) # <<>> =>
                        \E label \in Range(selection[c]) :
                            label \in Extracted(c, OutputText(df[k].row))

\* C2: applying the same selection to the result of apply_filters completes
\* without error and returns the same rows in the same order.
C2_FilterIdempotent ==
    pc = "twice" =>
        /\ ~result2[1].raised
        /\ result2[1].df = result[1].df

\* Whether a row's raw blob is empty or missing.
BlobEmptyOrMissing(row) == row.output = <<>> \/ row.output = << <<>> >>

\* C5: with no category active the result is exactly the input rows; with a
\* category active no row with an empty or missing blob is in the result.
C5_InactiveKeepsAllActiveDropsEmpty ==
    pc # "start" =>
        /\ ~FilterActive => result[1].df = df
        /\ FilterActive =>
              \A j \in 1..Len(result[1].df) :
                  ~BlobEmptyOrMissing(result[1].df[j].row)

----------------------------------------------------------------------------
(* FilterService on one row whose blob holds one key/value pair, written   *)
(* with every mix of quotation marks and with whitespace on either side of *)
(* the colon, filtered by the pair's own display label.                    *)

\* The vocabulary: every table entry with its key and category.
Facets ==
    {[key |-> kCode, val |-> e[1], label |-> e[2], category |-> "study_types"]
        : e \in Range(StudyTypePatterns)}
    \cup {[key |-> kCode, val |-> e[1], label |-> e[2], category |-> "phases"]
        : e \in Range(PhasePatterns)}
    \cup {[key |-> kGroup, val |-> e[1], label |-> e[2],
           category |-> "pharma_groups"] : e \in Range(PharmaGroupPatterns)}

\* The quotation marks a blob is written with.
QuotationMarks == {"'", "\""}

\* The whitespace runs of at most n characters.
WsRuns(n) == UNION {[1..m -> Whitespace] : m \in 0..n}

\* One pair: a facet, its four quotation marks, the whitespace before and
\* after the colon.
ShapeOf(f, q, b, a) ==
    [key |-> f.key, val |-> f.val, label |-> f.label, category |-> f.category,
     quotes |-> q, before |-> b, after |-> a]

\* The blob [{<q>key<q><before>:<after><q>val<q>}]
BlobOf(sh) ==
    <<"[", "{">> \o <<sh.quotes[1]>> \o sh.key \o <<sh.quotes[2]>>
        \o sh.before \o <<":">> \o sh.after
        \o <<sh.quotes[3]>> \o sh.val \o <<sh.quotes[4]>> \o <<"}", "]">>

InitQuote ==
    /\ IdleService
    /\ IdleFormatter
    /\ \E f \in Facets, q \in [1..4 -> QuotationMarks],
          b \in WsRuns(MaxWs), a \in WsRuns(MaxWs) : shape = ShapeOf(f, q, b, a)
    /\ df = FrameOf(<<[work_id |-> "W1", publication_year |-> 2024,
                       abstract |-> <<"a">>, output |-> <<BlobOf(shape)>>]>>)
    /\ selection = [c \in {shape.category} |-> <<shape.label>>]
    /\ result = Unset
    /\ result2 = Unset
    /\ options = Unset
    /\ pc = "start"

SpecQuote == InitQuote /\ [][NextFilter]_vars

\* C4 as stated: the pair is matched whatever the quotation marks and
\* whatever whitespace stands on either side of the colon: the row is kept
\* by the filter for the label and the label is among the filter options.
C4_QuoteAndWhitespaceAgnostic ==
    shape # NoShape =>
        /\ pc # "start" => RowKept(1)
        /\ options # Unset => shape.label \in Range(options[1][shape.category])

\* C4 amended: the pair is matched whatever the quotation marks and whatever
\* whitespace follows the colon, when the colon directly follows the key's
\* closing quotation mark.
C4_QuoteAgnosticWhitespaceAfterColon ==
    (shape # NoShape /\ shape.before = <<>>) =>
        /\ pc # "start" => RowKept(1)
        /\ options # Unset => shape.label \in Range(options[1][shape.category])

\* A pair in mixed quotation marks with whitespace after the colon, kept by
\* the filter and listed in the options.
C4_Witness ==
    /\ shape # NoShape
    /\ shape.before = <<>>
    /\ Len(shape.after) = MaxWs
    /\ shape.quotes[1] # shape.quotes[2]
    /\ shape.quotes[3] # shape.quotes[4]
    /\ pc = "twice"
    /\ RowKept(1)
    /\ options # Unset
    /\ shape.label \in Range(options[1][shape.category])

----------------------------------------------------------------------------
(* Claims about the routes, checked under Spec.                            *)

IsListing == response # Unset /\ response[1].op \in {"papers", "filter"}

\* C3: the pagination block of a listing has total_pages = ceil(total/limit)
\* (the least n with n * limit >= total), has_next <=> page < total_pages and
\* has_previous <=> page > 1, for total = 0 too.
C3_PaginationBlock ==
    (IsListing /\ response[1].status = 200) =>
        LET p == response[1].body[1].pagination
        IN  /\ p.total_pages * p.limit >= p.total
            /\ (p.total_pages - 1) * p.limit < p.total
            /\ p.has_next <=> p.page < p.total_pages
            /\ p.has_previous <=> p.page > 1

\* Whether a filter request selects nothing: every list empty or omitted.
EmptySelection(request) ==
    \A c \in Categories : request[c] = <<>> \/ request[c][1] = <<>>

\* C6: POST /papers/filter with an empty selection answers with the same
\* data rows, in the same order, and the same pagination block as
\* GET /papers does for the same store contents, page and limit.
C6_EmptySelectionSameAsList ==
    (/\ response # Unset
     /\ response[1].op = "filter"
     /\ EmptySelection(response[1].request)) =>
        LET r == response[1]
            listing == get_papers(get_all_papers(store, r.mode),
                                  r.request.page, r.request.limit)
        IN  /\ r.status = listing.status
            /\ r.body[1].data = listing.body[1].data
            /\ r.body[1].pagination = listing.body[1].pagination

\* An empty selection, one list given empty and one omitted, answered with
\* the second page of a store that holds a row with an empty blob.
C6_Witness ==
    /\ response # Unset
    /\ response[1].op = "filter"
    /\ response[1].request.study_types = << <<>> >>
    /\ response[1].request.phases = <<>>
    /\ response[1].request.pharma_groups = << <<>> >>
    /\ response[1].request.page = 2
    /\ response[1].status = 200
    /\ \E k \in 1..Len(response[1].body[1].data) :
           response[1].body[1].data[k].work_id = "W2"

\* C7: GET /papers/{id} with a work_id that is not in the store ends in 404,
\* never 500, and so does any lookup while the store fails.
C7_UnknownIdNotFound ==
    (/\ response # Unset
     /\ response[1].op = "detail"
     /\ \/ \A k \in 1..Len(store) :
               store[k].work_id # response[1].request.work_id
        \/ response[1].mode # "up") =>
        response[1].status = 404

\* A lookup of an unknown work_id in a store that answers and holds rows.
C7_Witness ==
    /\ response # Unset
    /\ response[1].op = "detail"
    /\ response[1].mode = "up"
    /\ store # <<>>
    /\ response[1].request.work_id = "W0"
    /\ response[1].status = 404

\* While the store fails every listing operation answers 200 with no rows.
ListingsEmptyOnFailure ==
    (response # Unset /\ response[1].mode # "up") =>
        LET r == response[1]
        IN  /\ r.op \in {"papers", "filter"} =>
                  /\ r.status = 200
                  /\ r.body[1].data = <<>>
                  /\ r.body[1].pagination.total = 0
            /\ r.op = "count" => r.status = 200 /\ r.body[1].total = 0
            /\ r.op = "options" =>
                  /\ r.status = 200
                  /\ r.body[1].study_types = <<>>
                  /\ r.body[1].phases = <<>>
                  /\ r.body[1].pharma_groups = <<>>

\* C8 as stated: while the store fails (connect or query error) every
\* listing operation answers 200 with no rows and the health check reports
\* "unhealthy".
C8_StoreFailureEmptyAndUnhealthy ==
    /\ ListingsEmptyOnFailure
    /\ (response # Unset /\ response[1].mode # "up"
            /\ response[1].op = "health") =>
           response[1].body[1].status = "unhealthy"

\* C8 amended: while the store fails every listing operation answers 200
\* with no rows; the health check reports "unhealthy" when connecting fails
\* and "healthy" when only the query fails.
C8_StoreFailureEmptyHealthByConnect ==
    /\ ListingsEmptyOnFailure
    /\ (response # Unset /\ response[1].op = "health") =>
           (response[1].body[1].status = "unhealthy"
                <=> response[1].mode = "connect_fail")

\* A filter request with a label selected, answered while the query fails
\* on a store that holds rows.
C8_Witness ==
    /\ response # Unset
    /\ response[1].op = "filter"
    /\ response[1].mode = "query_fail"
    /\ ~EmptySelection(response[1].request)
    /\ store # <<>>
    /\ response[1].status = 200
    /\ response[1].body[1].pagination.total = 0

\* C9: no connection opened by a fetch call is open once the call returned.
C9_NoConnectionLeftOpen == openConns = 0

----------------------------------------------------------------------------
(* Claims about the formatter, checked under SpecFormat.                   *)

\* The places of a cleaned text where a sentence ends: '.', '!' or '?'
\* followed by whitespace.
Boundaries(clean) ==
    {i \in 1..(Len(clean) - 1) :
        clean[i] \in {".", "!", "?"} /\ clean[i + 1] = " "}

\* The end of the third sentence.
ThirdBoundary(clean) ==
    CHOOSE b \in Boundaries(clean) :
        Cardinality({i \in Boundaries(clean) : i < b}) = 2

\* C10: with more than 3 sentences in the cleaned abstract the summary is
\* its first 3 sentences, a single space between them (the cleaned text up
\* to the end of the third), followed by "..."; with 3 or fewer it is the
\* cleaned abstract itself.
C10_SummaryTruncation ==
    (summary # Unset /\ abstract # <<>>) =>
        LET clean == _clean_text(abstract)
        IN  IF Cardinality(Boundaries(clean)) + 1 > 3
            THEN summary[1] =
                    <<SubSeq(clean, 1, ThirdBoundary(clean)) \o <<".", ".", ".">> >>
            ELSE summary[1] = <<clean>>

\* An abstract of more than 3 sentences that cleaning changed, truncated.
C10_Witness ==
    /\ summary # Unset
    /\ summary[1] # <<>>
    /\ Cardinality(Boundaries(_clean_text(abstract))) > 3
    /\ _clean_text(abstract) # abstract
    /\ Len(summary[1][1]) < Len(_clean_text(abstract))

----------------------------------------------------------------------------
(* Claims about author parsing, checked under SpecAuthors.                 *)

\* The places of the semicolons of a text, with 0 and Len + 1 as the ends.
Cuts(text) ==
    {0, Len(text) + 1} \cup {k \in 1..Len(text) : text[k] = ";"}

\* The semicolon-separated part of text that starts after cut c, trimmed:
\* from its first to its last character that is not whitespace.
TrimmedPartAfter(text, c) ==
    LET next == CHOOSE d \in Cuts(text) :
                    d > c /\ \A e \in Cuts(text) : e > c => d <= e
        inked == {k \in (c + 1)..(next - 1) : text[k] \notin Whitespace}
    IN  IF inked = {} THEN <<>>
        ELSE SubSeq(text,
                    CHOOSE k \in inked : \A j \in inked : k <= j,
                    CHOOSE k \in inked : \A j \in inked : k >= j)

\* The non-empty trimmed parts from cut c on, joined by ", ".
RECURSIVE JoinedFrom(_, _)
JoinedFrom(text, c) ==
    IF c > Len(text) THEN <<>>
    ELSE LET next == CHOOSE d \in Cuts(text) :
                         d > c /\ \A e \in Cuts(text) : e > c => d <= e
             here == TrimmedPartAfter(text, c)
             rest == JoinedFrom(text, next)
         IN  IF here = <<>> THEN rest
             ELSE IF rest = <<>> THEN here
             ELSE here \o <<",", " ">> \o rest

\* The normalized string of a raw authorship string.
Normalized(text) ==
    IF Cuts(text) = {0, Len(text) + 1} THEN text ELSE JoinedFrom(text, 0)

\* C11: for a non-empty raw authorship string the result is its normalized
\* string (the trimmed non-empty semicolon-separated parts joined by ", ",
\* or the string itself when it has no semicolon) when that has at most 200
\* characters, else its first 197 characters followed by "..."; the result has
\* never more than 200 characters.
C11_AuthorNormalization ==
    (authors # Unset /\ raw_auth # <<>>) =>
        LET normal == Normalized(raw_auth)
            final == authors[1][1]
        IN  /\ authors[1] # <<>>
            /\ Len(final) <= 200
            /\ Len(normal) <= 200 => final = normal
            /\ Len(normal) > 200 =>
                  final = SubSeq(normal, 1, 197) \o <<".", ".", ".">>

\* A raw string with semicolons that ends in "; ", whose normalized string
\* is longer than 200 characters, cut to 197 characters and "...".
C11_Witness ==
    /\ authors # Unset
    /\ Len(raw_auth) > 2
    /\ raw_auth[Len(raw_auth) - 1] = ";"
    /\ raw_auth[Len(raw_auth)] = " "
    /\ Len(Normalized(raw_auth)) > 200
    /\ authors[1] # <<>>
    /\ Len(authors[1][1]) = 200
    /\ authors[1][1][200] = "."
    /\ authors[1][1][198] = "."

----------------------------------------------------------------------------
(* Pagination of a listing, checked under Spec.                            *)

\* The result set a listing paginates: the fetched frame, filtered by the
\* request's selection for POST /papers/filter.
ResultSet(r) ==
    LET fetched == get_all_papers(store, r.mode).df
    IN  IF r.op = "papers" THEN fetched
        ELSE apply_filters(fetched, PrepareFilters(r.request)).df

\* The data of pages first..last of a frame, one after the other.
RECURSIVE PagesData(_, _, _, _)
PagesData(frame, limit, first, last) ==
    IF first > last THEN <<>>
    ELSE _create_paginated_response(frame, first, limit, <<>>).data
             \o PagesData(frame, limit, first + 1, last)

Min(a, b) == IF a < b THEN a ELSE b

\* C12: the data of page p of a listing are the rows of the result set at
\* positions (p-1)*limit .. min(p*limit, total)-1 (counted from 0), in the
\* result set's order, and the total reported is the size of the result set;
\* so a page beyond total_pages is empty, the pages 1..total_pages one after
\* the other are every row once in order, and a listing leaves the stored
\* rows as they were.
C12_PageIsSliceOfResultSet ==
    /\ [](IsListing /\ response[1].status = 200 =>
            LET r == response[1]
                rs == ResultSet(r)
                total == Len(rs)
                limit == r.request.limit
                from == (r.request.page - 1) * limit
                to == Min(r.request.page * limit, total)
                data == r.body[1].data
                block == r.body[1].pagination
            IN  /\ block.total = total
                /\ Len(data) = IF to > from THEN to - from ELSE 0
                /\ \A k \in 1..Len(data) :
                       data[k] = format_paper(rs[from + k].row, FALSE)
                /\ r.request.page > block.total_pages => data = <<>>
                /\ PagesData(rs, limit, 1, block.total_pages)
                       = [k \in 1..total |-> format_paper(rs[k].row, FALSE)])
    /\ [][IsListing' => store' = store]_vars

\* Page 2 of a result set of three rows with limit 2: the third row alone.
C12_Witness ==
    /\ IsListing
    /\ response[1].op = "papers"
    /\ response[1].status = 200
    /\ response[1].request.page = 2
    /\ response[1].request.limit = 2
    /\ Len(store) = 3
    /\ Len(response[1].body[1].data) = 1
    /\ response[1].body[1].data[1].work_id = store[3].work_id
    /\ response[1].body[1].pagination.total = 3

====
